---- MODULE Spec2Model ----
(***************************************************************************)
(* Product categorization pipeline (src/app.py) and canonical-store        *)
(* seeding (src/seed_database.py).                                         *)
(*                                                                         *)
(* The graph store is a record of Product nodes, Brand nodes, ProductType  *)
(* nodes and the HAS_BRAND / IS_TYPE relationships.  seed_data fills it,   *)
(* one auto-commit statement per step; afterwards the Streamlit page       *)
(* "Product Categorization" runs the script body once per button click:    *)
(* get_all_brands, extract_attributes, process.extractOne, lemmatize,      *)
(* find_match_in_neo4j, result display.                                    *)
(*                                                                         *)
(* The completion service, thefuzz and the WordNet lemmatizer are external *)
(* to the repository: their results are inputs drawn from small sets.      *)
(***************************************************************************)
EXTENDS Integers, Sequences, FiniteSets, TLC

VARIABLES
    db,               \* the Neo4j graph
    phase,            \* "start" | "loading" | "serving"
    seeded,           \* number of entries of the products list merged so far
    seeded_ids,       \* canonical_ids of the entries merged so far
    snapshot,         \* the graph as seed_data left it
    pc,               \* position of the script run
    response,         \* what the completion service answered in this run
    known_brands,     \* app.py:287
    extracted_attrs,  \* app.py:298
    brand_match,      \* app.py:304
    query_params,     \* app.py:315
    records,          \* app.py:79
    matched_product,  \* app.py:323
    ui,               \* messages rendered by this run, in order
    calls             \* how often this run called each collaborator

vars == <<db, phase, seeded, seeded_ids, snapshot, pc, response, known_brands,
          extracted_attrs, brand_match, query_params, records,
          matched_product, ui, calls>>

run_vars == <<pc, response, known_brands, extracted_attrs, brand_match,
              query_params, records, matched_product, ui, calls>>

seed_vars == <<phase, seeded, seeded_ids, snapshot>>

(***************************************************************************)
(* Bounds and values                                                       *)
(***************************************************************************)
\* Longest products list handed to seed_data.
MaxSeed == 2

\* Python None / JSON null / Cypher null, for numbers and for strings.
NoneNum == -1
NoneStr == "<None>"
\* Python None where a node or a (choice, score) pair is expected.
NoneRec == [none |-> TRUE]
NoneTuple == << >>

\* app.py:305, the brand confidence threshold.
Threshold == 80

\* Similarity scores the scorer may report (range 0..100), around the threshold.
ScoreVals == {0, Threshold - 1, Threshold, Threshold + 1}

Product(id, brand, type, qty, size, uom) ==
    [canonical_id |-> id, brand |-> brand, product_type |-> type,
     pack_quantity |-> qty, pack_size |-> size, uom |-> uom]

\* Entries a products list may hold (pack_size in tenths).  The first is
\* PRODUCTS_TO_LOAD[0]; the others vary one attribute of it at a time, reuse
\* its canonical_id, or carry an empty product type name.
ProductEntries ==
    { Product(7669, "Driscoll's", "Strawberry", 8, 10, "LB"),
      Product(7670, "Driscoll's", "Strawberry", 8, 10, "OZ"),
      Product(7669, "Dole", "Blueberry", 8, 10, "LB"),
      Product(7671, "Driscoll's", "Strawberry", 12, 10, "LB"),
      Product(7672, "Driscoll's", "Strawberry", 8, 45, "LB"),
      Product(7673, "Driscoll's", "Blueberry", 8, 10, "LB"),
      Product(7674, "Dole", "Strawberry", 8, 10, "LB"),
      Product(7675, "Driscoll's", "", 8, 10, "LB") }

EmptyGraph ==
    [products |-> {}, brands |-> << >>, types |-> << >>,
     has_brand |-> {}, is_type |-> {}]

\* A graph left over from an earlier load.
StaleGraph ==
    [products |-> {Product(7000, "Stale", "Stale", 1, 10, "EA")},
     brands |-> <<"Stale">>, types |-> <<"Stale">>,
     has_brand |-> {<<7000, "Stale">>}, is_type |-> {<<7000, "Stale">>}]

Range(s) == {s[i] : i \in 1..Len(s)}

(***************************************************************************)
(* seed_database.py                                                        *)
(***************************************************************************)
\* MATCH (n) DETACH DELETE n
wipe(g) == EmptyGraph

\* The MERGE statement of seed_data for one product.
merge_product(g, product) ==
    LET exists == \E p \in g.products : p.canonical_id = product.canonical_id
    IN  [products  |-> IF exists THEN g.products ELSE g.products \cup {product},
         brands    |-> IF product.brand \in Range(g.brands)
                       THEN g.brands ELSE Append(g.brands, product.brand),
         types     |-> IF product.product_type \in Range(g.types)
                       THEN g.types ELSE Append(g.types, product.product_type),
         has_brand |-> g.has_brand \cup {<<product.canonical_id, product.brand>>},
         is_type   |-> g.is_type \cup {<<product.canonical_id, product.product_type>>}]

SeedWipe ==
    /\ phase = "start"
    /\ db' = wipe(db)
    /\ phase' = "loading"
    /\ UNCHANGED <<seeded, seeded_ids, snapshot, run_vars>>

SeedMerge ==
    /\ phase = "loading"
    /\ seeded < MaxSeed
    /\ \E product \in ProductEntries :
          /\ db' = merge_product(db, product)
          /\ seeded_ids' = seeded_ids \cup {product.canonical_id}
    /\ seeded' = seeded + 1
    /\ UNCHANGED <<phase, snapshot, run_vars>>

SeedFinish ==
    /\ phase = "loading"
    /\ phase' = "serving"
    /\ snapshot' = db
    /\ UNCHANGED <<db, seeded, seeded_ids, run_vars>>

(***************************************************************************)
(* app.py: collaborators                                                   *)
(***************************************************************************)
SchemaKeys == {"brand", "product_type", "pack_quantity", "pack_size", "uom"}

Dict(keys, brand, type, qty, size) ==
    [keys |-> keys, brand |-> brand, product_type |-> type,
     pack_quantity |-> qty, pack_size |-> size]

\* {"error": str(e)}
ErrorDict == Dict({"error"}, NoneStr, NoneStr, NoneNum, NoneNum)

\* Stands where a value is not a dictionary.
NoDict == Dict({}, NoneStr, NoneStr, NoneNum, NoneNum)

\* dict.get(key, default): the default applies only when the key is absent.
Get(d, key, default) == IF key \in d.keys THEN d[key] ELSE default

\* JSON objects the service may answer with: every combination of values
\* under the five schema keys, and objects of another shape.
SchemaObjects ==
    { Dict(SchemaKeys, b, t, q, s) :
        b \in {NoneStr, "", "Driscol"}, t \in {NoneStr, "", "Strawberries"},
        q \in {NoneNum, 8, 12}, s \in {NoneNum, 10} }

OtherObjects ==
    { Dict(SchemaKeys \ {"brand"}, NoneStr, "Strawberries", 8, 10),
      Dict({"brand"}, "Driscol", NoneStr, NoneNum, NoneNum),
      Dict(SchemaKeys \cup {"note"}, "Driscol", "Strawberries", 8, 10),
      Dict(SchemaKeys \cup {"error"}, "Driscol", "Strawberries", 8, 10),
      Dict({"error"}, NoneStr, NoneStr, NoneNum, NoneNum),
      Dict({}, NoneStr, NoneStr, NoneNum, NoneNum) }

\* What openai.chat.completions.create + message.content can amount to: the
\* call raises, the content does not parse, or (response_format json_object)
\* the content is a JSON object.
Responses ==
    {[kind |-> "raise", value |-> NoDict],
     [kind |-> "invalid_json", value |-> NoDict]}
    \cup {[kind |-> "object", value |-> o] : o \in SchemaObjects \cup OtherObjects}

NoResponse == [kind |-> "none", value |-> NoDict]

\* extract_attributes: json.loads of the content, or the error dictionary
\* when the call or the parse raises.
extract_attributes(resp) ==
    IF resp.kind \in {"raise", "invalid_json"}
    THEN ErrorDict
    ELSE resp.value

\* Python truthiness of a dictionary.
Truthy(d) == d.keys # {}

\* Mutant: the "error" key is not looked at.
proceeds_despite_error(d) == Truthy(d)

\* Mutant: only an object with exactly the schema's keys goes on.
proceeds_schema_only(d) ==
    /\ Truthy(d)
    /\ "error" \notin d.keys
    /\ d.keys = SchemaKeys

\* app.py:303  extracted_attrs and "error" not in extracted_attrs
proceeds(d) == Truthy(d) /\ "error" \notin d.keys

\* get_all_brands: MATCH (b:Brand) RETURN b.name; the statement leaves the
\* graph as it is.
get_all_brands(g) == [data |-> g.brands, graph |-> g]

\* process.extractOne(query, choices) with thefuzz's default scorer; score[i]
\* is the scorer's result for choices[i].  None for no choices, otherwise
\* the first choice holding the best score.
extractOne(query, choices, score) ==
    IF choices = << >> THEN NoneTuple
    ELSE LET best == CHOOSE i \in 1..Len(choices) :
                        /\ \A j \in 1..Len(choices) : score[j] <= score[i]
                        /\ \A j \in 1..(i - 1) : score[j] < score[i]
         IN  <<choices[best], score[best]>>

\* Scores the scorer can report for a query: 0 throughout for the empty
\* string, anything otherwise.
Scorings(query, choices) ==
    IF query = ""
    THEN {[i \in 1..Len(choices) |-> 0]}
    ELSE [1..Len(choices) -> ScoreVals]

\* Mutant: a score equal to the threshold is rejected too.
brand_rejected_at_threshold(bm) == bm = NoneTuple \/ bm[2] <= Threshold

\* app.py:305  not brand_match or brand_match[1] < 80
brand_rejected(bm) == bm = NoneTuple \/ bm[2] < Threshold

\* WordNetLemmatizer.lemmatize: the word itself or a base form of it.
LemmaForms(word) ==
    IF word = "Strawberries" THEN {"Strawberries", "Strawberry"} ELSE {word}

\* Mutant: a missing product type falls back to a default type name.
lemmatized_types_default(product_type_from_ai) ==
    IF product_type_from_ai \notin {NoneStr, ""}
    THEN LemmaForms(product_type_from_ai)
    ELSE {"Strawberry"}

\* app.py:313  lemmatizer.lemmatize(x) if x else ''
lemmatized_types(product_type_from_ai) ==
    IF product_type_from_ai \notin {NoneStr, ""}
    THEN LemmaForms(product_type_from_ai)
    ELSE {""}

\* Cypher equality: null compared with anything is not true.
CypherEq(a, b, null) == a # null /\ b # null /\ a = b

\* Mutant: the WHERE clause leaves pack_size out.
match_query_ignoring_size(g, params) ==
    [data |->
        { [p |-> p, b |-> b, pt |-> pt] :
            <<p, b, pt>> \in
              { t \in g.products \X Range(g.brands) \X Range(g.types) :
                  /\ <<t[1].canonical_id, t[2]>> \in g.has_brand
                  /\ CypherEq(t[2], params.brand, NoneStr)
                  /\ <<t[1].canonical_id, t[3]>> \in g.is_type
                  /\ CypherEq(t[3], params.product_type, NoneStr)
                  /\ CypherEq(t[1].pack_quantity, params.pack_quantity, NoneNum) } },
     graph |-> g]

\* Mutant: the ProductType pattern is MERGEd, creating the node when absent.
match_query_merging(g, params) ==
    [data |->
        { [p |-> p, b |-> b, pt |-> pt] :
            <<p, b, pt>> \in
              { t \in g.products \X Range(g.brands) \X Range(g.types) :
                  /\ <<t[1].canonical_id, t[2]>> \in g.has_brand
                  /\ CypherEq(t[2], params.brand, NoneStr)
                  /\ <<t[1].canonical_id, t[3]>> \in g.is_type
                  /\ CypherEq(t[3], params.product_type, NoneStr)
                  /\ CypherEq(t[1].pack_quantity, params.pack_quantity, NoneNum)
                  /\ CypherEq(t[1].pack_size, params.pack_size, NoneNum) } },
     graph |-> IF params.product_type \in Range(g.types)
               THEN g
               ELSE [g EXCEPT !.types = Append(@, params.product_type)]]

\* The MATCH ... WHERE ... RETURN p statement of find_match_in_neo4j: one
\* row per (p, b, pt) the two patterns and the WHERE clause accept.  The
\* statement leaves the graph as it is.
match_query(g, params) ==
    [data |->
        { [p |-> p, b |-> b, pt |-> pt] :
            <<p, b, pt>> \in
              { t \in g.products \X Range(g.brands) \X Range(g.types) :
                  /\ <<t[1].canonical_id, t[2]>> \in g.has_brand
                  /\ CypherEq(t[2], params.brand, NoneStr)
                  /\ <<t[1].canonical_id, t[3]>> \in g.is_type
                  /\ CypherEq(t[3], params.product_type, NoneStr)
                  /\ CypherEq(t[1].pack_quantity, params.pack_quantity, NoneNum)
                  /\ CypherEq(t[1].pack_size, params.pack_size, NoneNum) } },
     graph |-> g]

W_AMBIGUOUS == "warning: Ambiguous Match: Multiple products in the KG match these attributes."
W_EMPTY == "warning: Please enter a product description."
W_BRAND == "warning: Could not find a confident brand match in the database."
I_STANDARDIZED == "info: Standardized Brand to"
S_MATCH == "success: 100% Precision Match Found in Neo4j!"
I_NO_MATCH == "info: No exact match found in the knowledge graph based on all criteria."
J_ATTRS == "json: extracted_attrs"
J_PRODUCT == "json: matched_product"
EXCEPTION == "exception"

\* Mutant: with several rows the first one is returned.
find_match_result_first(rows) ==
    IF Cardinality(rows) >= 1
    THEN [ret |-> (CHOOSE r \in rows : TRUE).p, shown |-> << >>]
    ELSE [ret |-> NoneRec, shown |-> << >>]

\* Mutant: several rows are answered like none, without the warning.
find_match_result_silent(rows) ==
    IF Cardinality(rows) = 1
    THEN [ret |-> (CHOOSE r \in rows : TRUE).p, shown |-> << >>]
    ELSE [ret |-> NoneRec, shown |-> << >>]

\* find_match_in_neo4j, lines 79-86: the value returned and the warnings shown.
find_match_result(rows) ==
    IF Cardinality(rows) = 1
    THEN [ret |-> (CHOOSE r \in rows : TRUE).p, shown |-> << >>]
    ELSE IF Cardinality(rows) > 1
    THEN [ret |-> NoneRec, shown |-> <<W_AMBIGUOUS>>]
    ELSE [ret |-> NoneRec, shown |-> << >>]

\* app.py:326-330, the "Matching Result" section.
matching_result(product) ==
    IF product # NoneRec THEN <<S_MATCH, J_PRODUCT>> ELSE <<I_NO_MATCH>>

NoParams ==
    [brand |-> NoneStr, product_type |-> NoneStr,
     pack_quantity |-> NoneNum, pack_size |-> NoneNum]

NoCalls == [extract |-> 0, extractOne |-> 0, lemmatize |-> 0, find_match |-> 0]

Called(what) == [calls EXCEPT ![what] = @ + 1]

(***************************************************************************)
(* app.py: one run of the "Product Categorization" page                    *)
(***************************************************************************)
\* Lines 278-296: the script reruns on the button click.
Categorize ==
    /\ phase = "serving"
    /\ pc \in {"idle", "done"}
    /\ LET r == get_all_brands(db)
       IN  /\ known_brands' = r.data
           /\ db' = r.graph
    /\ \E product_description \in {"", "STRAWBERRY DRISCOLL 8/1LB"} :
          IF product_description = ""
          THEN /\ ui' = <<W_EMPTY>>
               /\ pc' = "done"
          ELSE /\ ui' = << >>
               /\ pc' = "extract"
    /\ response' = NoResponse
    /\ extracted_attrs' = NoDict
    /\ brand_match' = NoneTuple
    /\ query_params' = NoParams
    /\ records' = {}
    /\ matched_product' = NoneRec
    /\ calls' = NoCalls
    /\ UNCHANGED seed_vars

\* Lines 297-303.
Extract ==
    /\ pc = "extract"
    /\ \E resp \in Responses :
          /\ response' = resp
          /\ extracted_attrs' = extract_attributes(resp)
          /\ pc' = IF proceeds(extract_attributes(resp)) THEN "normalize" ELSE "done"
    /\ calls' = Called("extract")
    /\ ui' = Append(ui, J_ATTRS)
    /\ UNCHANGED <<db, seed_vars, known_brands, brand_match, query_params,
                   records, matched_product>>

\* Line 304 with brand null: extractOne hands None to its string processor,
\* which raises TypeError; versions that look at the choices first return
\* None when there are none.
NormalizeNull ==
    /\ pc = "normalize"
    /\ Get(extracted_attrs, "brand", "") = NoneStr
    /\ calls' = Called("extractOne")
    /\ \/ /\ ui' = Append(ui, EXCEPTION)
          /\ UNCHANGED brand_match
       \/ /\ known_brands = << >>
          /\ brand_match' = NoneTuple
          /\ ui' = Append(ui, W_BRAND)
    /\ pc' = "done"
    /\ UNCHANGED <<db, seed_vars, response, known_brands, extracted_attrs,
                   query_params, records, matched_product>>

\* Lines 304-309.
Normalize ==
    /\ pc = "normalize"
    /\ LET query == Get(extracted_attrs, "brand", "")
       IN  /\ query # NoneStr
           /\ \E score \in Scorings(query, known_brands) :
                 LET bm == extractOne(query, known_brands, score)
                 IN  /\ brand_match' = bm
                     /\ IF brand_rejected(bm)
                        THEN /\ ui' = Append(ui, W_BRAND)
                             /\ pc' = "done"
                        ELSE /\ ui' = Append(ui, I_STANDARDIZED)
                             /\ pc' = "params"
    /\ calls' = Called("extractOne")
    /\ UNCHANGED <<db, seed_vars, response, known_brands, extracted_attrs,
                   query_params, records, matched_product>>

\* Lines 311-320.
BuildParams ==
    /\ pc = "params"
    /\ LET product_type_from_ai == Get(extracted_attrs, "product_type", "")
           lemmatize == product_type_from_ai \notin {NoneStr, ""}
       IN  /\ \E lemmatized_type \in lemmatized_types(product_type_from_ai) :
                 query_params' =
                    [brand |-> brand_match[1],
                     product_type |-> lemmatized_type,
                     pack_quantity |-> Get(extracted_attrs, "pack_quantity", NoneNum),
                     pack_size |-> Get(extracted_attrs, "pack_size", NoneNum)]
           /\ calls' = IF lemmatize THEN Called("lemmatize") ELSE calls
    /\ pc' = "query"
    /\ UNCHANGED <<db, seed_vars, response, known_brands, extracted_attrs,
                   brand_match, records, matched_product, ui>>

\* Lines 322-330: find_match_in_neo4j and the "Matching Result" section.
Query ==
    /\ pc = "query"
    /\ LET r == match_query(db, query_params)
           found == find_match_result(r.data)
       IN  /\ db' = r.graph
           /\ records' = r.data
           /\ matched_product' = found.ret
           /\ ui' = ui \o found.shown \o matching_result(found.ret)
    /\ calls' = Called("find_match")
    /\ pc' = "done"
    /\ UNCHANGED <<seed_vars, response, known_brands, extracted_attrs,
                   brand_match, query_params>>

Init ==
    /\ db \in {EmptyGraph, StaleGraph}
    /\ phase = "start"
    /\ seeded = 0
    /\ seeded_ids = {}
    /\ snapshot = EmptyGraph
    /\ pc = "idle"
    /\ response = NoResponse
    /\ known_brands = << >>
    /\ extracted_attrs = NoDict
    /\ brand_match = NoneTuple
    /\ query_params = NoParams
    /\ records = {}
    /\ matched_product = NoneRec
    /\ ui = << >>
    /\ calls = NoCalls

Next ==
    \/ SeedWipe
    \/ SeedMerge
    \/ SeedFinish
    \/ Categorize
    \/ Extract
    \/ NormalizeNull
    \/ Normalize
    \/ BuildParams
    \/ Query

Spec == Init /\ [][Next]_vars

(***************************************************************************)
(* Properties                                                              *)
(***************************************************************************)
Shown(msg) == msg \in Range(ui)

\* The run reached the matcher and finished.
Matched_ran == pc = "done" /\ calls.find_match = 1

\* The canonical products that agree with params on brand, product type,
\* pack_quantity and pack_size.
Candidates(params) ==
    { p \in db.products :
        /\ <<p.canonical_id, params.brand>> \in db.has_brand
        /\ <<p.canonical_id, params.product_type>> \in db.is_type
        /\ p.pack_quantity = params.pack_quantity
        /\ p.pack_size = params.pack_size }

\* Query parameters another run could present to the matcher.
ParamSpace ==
    [brand : {"Driscoll's", "Dole"},
     product_type : {"Strawberry", "Strawberries", "Blueberry", ""},
     pack_quantity : {NoneNum, 8, 12},
     pack_size : {NoneNum, 10, 45}]

\* What a run renders from find_match_in_neo4j on, given the rows found.
Surface(rows) ==
    find_match_result(rows).shown \o matching_result(find_match_result(rows).ret)

\* What this run rendered after the extracted attributes and the
\* standardized brand.
MatcherSurface == SubSeq(ui, 3, Len(ui))

\* C1: the matcher answers NoMatch (None, no warning) when no canonical
\* product satisfies the match predicate, Matched with that product when
\* exactly one does, and Ambiguous (None with the ambiguity warning) when
\* two or more do; it never returns one of several candidates.
C1_MatchOutcome ==
    Matched_ran =>
        LET c == Candidates(query_params)
        IN  /\ c = {} => matched_product = NoneRec /\ ~Shown(W_AMBIGUOUS)
            /\ Cardinality(c) = 1 => matched_product \in c /\ ~Shown(W_AMBIGUOUS)
            /\ Cardinality(c) >= 2 => matched_product = NoneRec /\ Shown(W_AMBIGUOUS)

C1_Witness ==
    /\ Matched_ran
    /\ Cardinality(Candidates(query_params)) >= 2
    /\ matched_product = NoneRec

\* C2: a canonical product is among the rows of the match query if and only
\* if its brand, its product type, its pack_quantity and its pack_size equal
\* the record's; uom plays no part, and a product agreeing on only some of
\* the four is not returned.
C2_CandidateIff ==
    Matched_ran =>
        /\ \A r \in records : r.p \in db.products
        /\ \A p \in db.products :
              (\E r \in records : r.p = p) <=> p \in Candidates(query_params)
        /\ \A p, q \in db.products :
              ( /\ \E r \in records : r.p = p
                /\ q.pack_quantity = p.pack_quantity
                /\ q.pack_size = p.pack_size
                /\ <<q.canonical_id, query_params.brand>> \in db.has_brand
                /\ <<q.canonical_id, query_params.product_type>> \in db.is_type )
              => \E r \in records : r.p = q

\* A run whose rows hold one product while the store holds another that
\* differs from the record in pack_size alone.
C2_Witness ==
    /\ Matched_ran
    /\ records # {}
    /\ \E q \in db.products :
          /\ <<q.canonical_id, query_params.brand>> \in db.has_brand
          /\ <<q.canonical_id, query_params.product_type>> \in db.is_type
          /\ q.pack_quantity = query_params.pack_quantity
          /\ q.pack_size # query_params.pack_size
          /\ \A r \in records : r.p # q

\* C3 as stated: the best-scoring brand is standardized only if its score is
\* strictly greater than 80; with a best score of 80 or less the run ends
\* with the brand warning and no brand is standardized.
C3_StrictThreshold ==
    brand_match # NoneTuple =>
        /\ Shown(I_STANDARDIZED) <=> brand_match[2] > Threshold
        /\ brand_match[2] <= Threshold => Shown(W_BRAND) /\ pc = "done"

\* C3 as amended: the best-scoring brand is standardized exactly when its
\* score is 80 or more; with a best score below 80 the run ends with the
\* brand warning and no brand is standardized.
C3_ThresholdInclusive ==
    brand_match # NoneTuple =>
        /\ Shown(I_STANDARDIZED) <=> brand_match[2] >= Threshold
        /\ brand_match[2] < Threshold =>
              /\ Shown(W_BRAND)
              /\ pc = "done"
              /\ query_params = NoParams
        /\ brand_match[1] \in Range(known_brands)

C3_Witness ==
    /\ brand_match # NoneTuple
    /\ brand_match[2] = Threshold
    /\ Shown(I_STANDARDIZED)
    /\ query_params.brand = brand_match[1]

\* C4 as stated: a run with two or more candidates differs from any run with
\* zero candidates both in the value the matcher returns and in what is
\* rendered.
C4_ReturnAndSurfaceDiffer ==
    (Matched_ran /\ Cardinality(records) >= 2) =>
        \A params \in ParamSpace :
            LET rows == match_query(db, params).data
            IN  rows = {} =>
                  /\ find_match_result(rows).ret # matched_product
                  /\ Surface(rows) # MatcherSurface

\* C4 as amended: a run with two or more candidates differs from any run
\* with zero candidates in what is rendered (the ambiguity warning precedes
\* the no-match notice), while the matcher returns None in both; and a run
\* that stopped before the matcher renders neither the match nor the
\* no-match notice.
C4_SurfaceDiffers ==
    /\ (Matched_ran /\ Cardinality(records) >= 2) =>
          /\ MatcherSurface = <<W_AMBIGUOUS, I_NO_MATCH>>
          /\ \A params \in ParamSpace :
                LET rows == match_query(db, params).data
                IN  rows = {} =>
                      /\ find_match_result(rows).ret = matched_product
                      /\ Surface(rows) # MatcherSurface
    /\ (pc = "done" /\ calls.find_match = 0) =>
          ~Shown(I_NO_MATCH) /\ ~Shown(S_MATCH) /\ ~Shown(W_AMBIGUOUS)

C4_Witness ==
    /\ Matched_ran
    /\ Cardinality(records) >= 2
    /\ \E params \in ParamSpace : match_query(db, params).data = {}
    /\ Shown(W_AMBIGUOUS)

ExtractionFailed == response.kind \in {"raise", "invalid_json"}

\* extracted_attrs is a dictionary with an "error" key.
HasError == "error" \in extracted_attrs.keys

\* C5: once the completion call raised or answered invalid JSON, the run is
\* over with the error record: extraction was called once, and extractOne,
\* the lemmatizer and the match query are not called in that run.
C5_StopsAtExtraction ==
    ExtractionFailed =>
        /\ pc = "done"
        /\ HasError
        /\ calls = [NoCalls EXCEPT !.extract = 1]
        /\ brand_match = NoneTuple
        /\ query_params = NoParams
        /\ ui = <<J_ATTRS>>

C5_Witness ==
    /\ response.kind = "invalid_json"
    /\ pc = "done"
    /\ calls.extract = 1

\* The answer is a JSON object with exactly the five schema keys.
SchemaShaped == response.kind = "object" /\ response.value.keys = SchemaKeys

\* C6 as stated: an answer of any other shape yields the error record and
\* goes no further than extraction.
C6_OtherShapeIsError ==
    (response.kind # "none" /\ ~SchemaShaped) =>
        /\ HasError
        /\ pc = "done"
        /\ calls.extractOne = 0

\* C6 as amended: extraction yields the error record when the call raises
\* or the content is not valid JSON; a JSON object is returned as it is,
\* whatever its keys, and goes on to the brand step unless it is empty or
\* has an "error" key; the error record and those two go no further than
\* extraction.
C6_ErrorOnlyOnFailure ==
    response.kind # "none" =>
        /\ ExtractionFailed => extracted_attrs = ErrorDict
        /\ response.kind = "object" => extracted_attrs = response.value
        /\ ( /\ response.kind = "object"
             /\ response.value.keys # {}
             /\ "error" \notin response.value.keys )
           => (pc # "done" \/ calls.extractOne = 1)
        /\ ( \/ ExtractionFailed
             \/ /\ response.kind = "object"
                /\ (response.value.keys = {} \/ "error" \in response.value.keys) )
           => (pc = "done" /\ calls.extractOne = 0)

\* An object without the brand key reached extractOne.
C6_Witness ==
    /\ response.kind = "object"
    /\ response.value.keys = SchemaKeys \ {"brand"}
    /\ calls.extractOne = 1

\* C7: when the extracted brand is null or empty, or no known brand reaches
\* the threshold (an empty vocabulary included), the brand step ends the run
\* with the brand warning: extractOne was called once, and neither the
\* lemmatizer nor the match query is called.
C7_BrandFailFast ==
    ( /\ calls.extractOne = 1
      /\ \/ Get(extracted_attrs, "brand", "") \in {NoneStr, ""}
         \/ brand_match = NoneTuple
         \/ brand_match[2] < Threshold )
    => /\ Shown(W_BRAND)
       /\ pc = "done"
       /\ calls.lemmatize = 0
       /\ calls.find_match = 0

\* C8: while the page serves categorization runs the graph is the one
\* seed_data left: no Product, Brand or ProductType node and no HAS_BRAND or
\* IS_TYPE relationship is added, removed or changed.
C8_StoreReadOnly == phase = "serving" => db = snapshot

C8_Witness ==
    /\ phase = "serving"
    /\ Matched_ran
    /\ db.products # {}
    /\ query_params.product_type \notin Range(db.types)

EmptyProductType == Get(extracted_attrs, "product_type", "") \in {NoneStr, ""}

\* C9 as stated: a null or empty product_type reaches the matcher as the
\* empty string, unlemmatized, and the run never ends in Matched.
C9_EmptyTypeNeverMatches ==
    (Matched_ran /\ EmptyProductType) =>
        /\ query_params.product_type = ""
        /\ calls.lemmatize = 0
        /\ matched_product = NoneRec

\* C9 as amended: a null or empty product_type reaches the matcher as the
\* empty string, unlemmatized; the run ends in Matched only against a store
\* holding a ProductType whose name is the empty string, and finds no row in
\* any other store.
C9_EmptyTypeMatchesOnlyEmptyName ==
    (Matched_ran /\ EmptyProductType) =>
        /\ query_params.product_type = ""
        /\ calls.lemmatize = 0
        /\ matched_product # NoneRec => <<matched_product.canonical_id, "">> \in db.is_type
        /\ "" \notin Range(db.types) => records = {} /\ matched_product = NoneRec

C9_Witness ==
    /\ Matched_ran
    /\ EmptyProductType
    /\ db.products # {}
    /\ "" \notin Range(db.types)
    /\ matched_product = NoneRec

\* C10: after seed_data the store holds one Product node per distinct id of
\* the list, and every Product node has exactly one HAS_BRAND and exactly
\* one IS_TYPE relationship.
C10_SeedShape ==
    phase = "serving" =>
        /\ {p.canonical_id : p \in db.products} = seeded_ids
        /\ Cardinality(db.products) = Cardinality(seeded_ids)
        /\ \A p \in db.products :
              /\ Cardinality({r \in db.has_brand : r[1] = p.canonical_id}) = 1
              /\ Cardinality({r \in db.is_type : r[1] = p.canonical_id}) = 1

====
